---- MODULE Spec2Model ----
(***************************************************************************)
(* Session-based authentication in front of the posts resource            *)
(* (src/index.js, lines 1-116): express-session with the default          *)
(* in-memory store, the currentUser middleware, the requireAuth guard and *)
(* the register / login / logout / posts handlers.  A request is a        *)
(* sequence of steps separated by the handler's await points.             *)
(***************************************************************************)
EXTENDS Integers, Sequences, FiniteSets, TLC

\* ------------------------------------------------------------------ bounds
MaxSid == 3        \* session ids the id generator hands out in a run
MaxTime == 2       \* clock ticks in a run
MaxRaceSid == 2    \* session ids handed out in a run with overlapping requests

\* cookie.maxAge (7 days), in clock ticks of 3.5 days
TTL == 2

\* ------------------------------------------------------------ input sets
Clients == {"c1", "c2"}
Slots == {1, 2}
Emails == {"", "alice@example.com", "not-an-address"}
Passwords == {"", "12345", "secret1"}
PostIds == {1, 2}
Posts == {1}
Salts == {"s1"}

NoUser == 0
NoSid == 0

\* ------------------------------------------------------------- variables
VARIABLES
    users,      \* prisma.user rows, in insertion order: id = position
    sessions,   \* MemoryStore: session id -> [userId, expires], with the
                \* time the entry was first written (since)
    nextSid,    \* next id the session id generator returns
    jar,        \* client -> session id held in its cookie (NoSid: none)
    req,        \* slot -> the request in flight in it
    last,       \* the request that completed last, with its response
    destroyed,  \* session ids destroyed by POST /logout
    now         \* the clock

vars == <<users, sessions, nextSid, jar, req, last, destroyed, now>>

\* ------------------------------------------------------------- responses
Render(view, error) ==
    [status |-> 200, view |-> view, location |-> "", error |-> error]

Redirect(location) ==
    [status |-> 302, view |-> "", location |-> location, error |-> ""]

SendStatus(status, text) ==
    [status |-> status, view |-> "", location |-> "", error |-> text]

NoResponse == [status |-> 0, view |-> "", location |-> "", error |-> ""]

\* ------------------------------------------------------- password hasher
\* bcrypt.hash(password, 10): a salted digest, never the plaintext
HashPlain(password, salt) == [alg |-> "plain", salt |-> salt, of |-> password]

Hash(password, salt) == [alg |-> "bcrypt", salt |-> salt, of |-> password]

\* bcrypt.compare(password, passwordHash): rehash under the embedded salt
CompareAlways(password, passwordHash) == TRUE

Compare(password, passwordHash) == Hash(password, passwordHash.salt) = passwordHash

\* ------------------------------------------------------ credential store
\* prisma.user.findUnique({ where: { email } }): position of the row, 0 if none
FindUniqueFirstRow(rows, email) ==
    IF Len(rows) > 0 /\ rows[1].email = email THEN 1 ELSE 0

FindUnique(rows, email) ==
    IF \E i \in 1..Len(rows) : rows[i].email = email
    THEN CHOOSE i \in 1..Len(rows) : rows[i].email = email
    ELSE 0

\* prisma.user.create({ data: { email, passwordHash } }): autoincrement id
Create(rows, email, passwordHash) ==
    Append(rows, [id |-> Len(rows) + 1, email |-> email, passwordHash |-> passwordHash])

\* ---------------------------------------------------------- session store
NoStore == [s \in {} |-> [userId |-> NoUser, expires |-> 0, since |-> 0]]

\* MemoryStore.set(sid, session)
StoreSet(store, sid, sess) ==
    [s \in (DOMAIN store) \cup {sid} |-> IF s = sid THEN sess ELSE store[s]]

\* MemoryStore.destroy(sid): idempotent
StoreDestroyNothing(store, sid) == store

StoreDestroyAll(store, sid) == NoStore

StoreDestroy(store, sid) ==
    [s \in (DOMAIN store) \ {sid} |-> store[s]]

\* MemoryStore getSession(sid): an expired entry is dropped on access
Live(store, sid) ==
    sid \in DOMAIN store /\ store[sid].expires > now

Prune(store, sid) ==
    IF sid \in DOMAIN store /\ ~Live(store, sid) THEN StoreDestroy(store, sid) ELSE store

\* MemoryStore.touch(sid, session): refresh the expiry of an existing entry
StoreTouch(store, sid, expires) ==
    IF Live(store, sid)
    THEN [store EXCEPT ![sid] = [@ EXCEPT !.expires = expires]]
    ELSE Prune(store, sid)

\* the user id a session id resolves to in the store (NoUser: none)
Resolve(sid) ==
    IF Live(sessions, sid) THEN sessions[sid].userId ELSE NoUser

\* ------------------------------------------------------------- requests
NoHash == [alg |-> "", salt |-> "", of |-> ""]

Idle ==
    [pc |-> "idle", kind |-> "", client |-> "", email |-> "", password |-> "",
     postId |-> 0, cookieId |-> NoSid, sid |-> NoSid, userId |-> NoUser,
     orig |-> NoUser, gone |-> FALSE, currentUser |-> {}, found |-> 0,
     hash |-> NoHash, dbq |-> FALSE, created |-> FALSE, fail |-> FALSE,
     postOp |-> "none"]

\* what is kept of a completed request: the session it ran on, what it did
\* and the response the client got
Outcome(rq, response, setCookie) ==
    [kind |-> rq.kind, client |-> rq.client, email |-> rq.email,
     password |-> rq.password, postId |-> rq.postId,
     cookieId |-> rq.cookieId, sid |-> rq.sid, orig |-> rq.orig,
     userId |-> rq.userId, currentUser |-> rq.currentUser,
     dbq |-> rq.dbq, created |-> rq.created,
     fail |-> rq.fail, postOp |-> rq.postOp, response |-> response,
     setCookie |-> setCookie]

NoOutcome == Outcome(Idle, NoResponse, NoSid)

\* session(...) middleware on an incoming request: the cookie's session if the
\* store still holds it, a generated empty session under a new id otherwise
LoadReuse(c) ==
    LET cookieId == jar[c]
        live == Live(sessions, cookieId)
    IN [cookieId |-> cookieId,
        sid |-> IF cookieId # NoSid THEN cookieId ELSE nextSid,
        userId |-> IF live THEN sessions[cookieId].userId ELSE NoUser,
        store |-> Prune(sessions, cookieId),
        fresh |-> cookieId = NoSid]

Load(c) ==
    LET cookieId == jar[c]
        live == Live(sessions, cookieId)
    IN [cookieId |-> cookieId,
        sid |-> IF live THEN cookieId ELSE nextSid,
        userId |-> IF live THEN sessions[cookieId].userId ELSE NoUser,
        store |-> Prune(sessions, cookieId),
        fresh |-> ~live]

\* res.locals.currentUser = req.session.userId ? { id: req.session.userId } : null
CurrentUserAlways(userId) == {[id |-> userId]}

CurrentUser(userId) == IF userId # NoUser THEN {[id |-> userId]} ELSE {}

\* the request as the route handler receives it
Incoming(c, kind, email, password, postId) ==
    LET s == Load(c)
    IN [Idle EXCEPT !.pc = "run", !.kind = kind, !.client = c, !.email = email,
                    !.password = password, !.postId = postId,
                    !.cookieId = s.cookieId, !.sid = s.sid, !.userId = s.userId,
                    !.orig = s.userId, !.currentUser = CurrentUser(s.userId)]

\* a new session id is generated only when the cookie names no live session
Generate(c) ==
    /\ Load(c).fresh => nextSid <= MaxSid
    /\ nextSid' = IF Load(c).fresh THEN nextSid + 1 ELSE nextSid

\* express-session at the end of the response (resave: false,
\* saveUninitialized: false, rolling off): a modified session is written to
\* the store and its cookie sent; an unmodified loaded one is touched
Finish(r, rq, store, response) ==
    LET modified == rq.userId # rq.orig
        loaded == rq.cookieId = rq.sid
        save == ~rq.gone /\ modified
        touch == ~rq.gone /\ ~save /\ loaded
        expires == now + TTL
        sess == [userId |-> rq.userId, expires |-> expires,
                 since |-> IF rq.sid \in DOMAIN store THEN store[rq.sid].since
                           ELSE now]
    IN /\ sessions' = IF save THEN StoreSet(store, rq.sid, sess)
                      ELSE IF touch THEN StoreTouch(store, rq.sid, expires)
                      ELSE store
       /\ jar' = IF save THEN [jar EXCEPT ![rq.client] = rq.sid] ELSE jar
       /\ last' = Outcome(rq, response, IF save THEN rq.sid ELSE NoSid)
       /\ req' = [req EXCEPT ![r] = Idle]

\* the request goes on to its next await; nothing is on the wire
Continue(r, rq, store) ==
    /\ req' = [req EXCEPT ![r] = rq]
    /\ sessions' = store
    /\ last' = NoOutcome
    /\ UNCHANGED jar

\* ------------------------------------------------------------- auth guard
\* requireAuth: next() iff the session carries a userId
RequireAuthOpen(userId) == TRUE

RequireAuth(userId) == userId # NoUser

\* ------------------------------------------------------------- register
\* password.length < 6 is rejected
PasswordMin == 6

\* the shortest password register lets through
MinLengthOffByOne == PasswordMin - 1

MinLength == PasswordMin

\* req.session.userId = user.id after the row is created
RegisterSessionNone(user) == NoUser

RegisterSession(user) == user.id

\* the unique index switched off: no insert is ever refused
UniqueViolationOff(rows, email) == FALSE

\* the unique index on User.email rejects a second row with the same email
UniqueViolation(rows, email) == \E i \in 1..Len(rows) : rows[i].email = email

\* the message of the catch block of register
RegistrationFailedAsDuplicate == "Email already registered"

RegistrationFailed == "Registration failed"

PostRegister(r, c, email, password) ==
    /\ req[r].pc = "idle"
    /\ Generate(c)
    /\ LET rq == Incoming(c, "register", email, password, 0)
           store == Load(c).store
       IN IF email = "" \/ password = ""
          THEN Finish(r, rq, store,
                      Render("auth/register", "Email and password required"))
          ELSE IF Len(password) < MinLength
          THEN Finish(r, rq, store,
                      Render("auth/register", "Password must be at least 6 characters"))
          ELSE Continue(r, [rq EXCEPT !.pc = "findUnique"], store)
    /\ UNCHANGED <<users, destroyed, now>>

RegisterFindUnique(r, ok) ==
    /\ req[r].pc = "findUnique"
    /\ req[r].kind = "register"
    /\ LET rq == [req[r] EXCEPT !.dbq = TRUE]
       IN IF ~ok
          THEN Finish(r, [rq EXCEPT !.fail = TRUE], sessions,
                      Render("auth/register", RegistrationFailed))
          ELSE IF FindUnique(users, rq.email) # 0
          THEN Finish(r, rq, sessions,
                      Render("auth/register", "Email already registered"))
          ELSE Continue(r, [rq EXCEPT !.pc = "hash"], sessions)
    /\ UNCHANGED <<users, nextSid, destroyed, now>>

RegisterHash(r, salt, ok) ==
    /\ req[r].pc = "hash"
    /\ IF ~ok
       THEN Finish(r, [req[r] EXCEPT !.fail = TRUE], sessions,
                   Render("auth/register", RegistrationFailed))
       ELSE Continue(r, [req[r] EXCEPT !.pc = "create",
                                       !.hash = Hash(req[r].password, salt)], sessions)
    /\ UNCHANGED <<users, nextSid, destroyed, now>>

\* prisma.user.create throws when the store fails or the email is taken
RegisterCreate(r, ok) ==
    /\ req[r].pc = "create"
    /\ LET rq == req[r]
           rows == Create(users, rq.email, rq.hash)
       IN IF ~ok \/ UniqueViolation(users, rq.email)
          THEN /\ Finish(r, [rq EXCEPT !.fail = ~ok], sessions,
                         Render("auth/register", RegistrationFailed))
               /\ users' = users
          ELSE /\ users' = rows
               /\ Finish(r, [rq EXCEPT !.created = TRUE,
                                       !.userId = RegisterSession(rows[Len(rows)])],
                         sessions, Redirect("/posts"))
    /\ UNCHANGED <<nextSid, destroyed, now>>

\* ---------------------------------------------------------------- login
PostLogin(r, c, email, password) ==
    /\ req[r].pc = "idle"
    /\ Generate(c)
    /\ LET rq == Incoming(c, "login", email, password, 0)
           store == Load(c).store
       IN IF email = "" \/ password = ""
          THEN Finish(r, rq, store,
                      Render("auth/login", "Email and password required"))
          ELSE Continue(r, [rq EXCEPT !.pc = "findUnique"], store)
    /\ UNCHANGED <<users, destroyed, now>>

\* the message for an email no user holds
UnknownEmailNamed == "No account with this email"

UnknownEmail == "Invalid email or password"

\* the catch block of login; without it the rejection would leave the
\* request without a response
LoginFailedUnhandled == NoResponse

LoginFailed == Render("auth/login", "Login failed")

LoginFindUnique(r, ok) ==
    /\ req[r].pc = "findUnique"
    /\ req[r].kind = "login"
    /\ LET rq == [req[r] EXCEPT !.dbq = TRUE]
           user == FindUnique(users, rq.email)
       IN IF ~ok
          THEN Finish(r, [rq EXCEPT !.fail = TRUE], sessions, LoginFailed)
          ELSE IF user = 0
          THEN Finish(r, rq, sessions, Render("auth/login", UnknownEmail))
          ELSE Continue(r, [rq EXCEPT !.pc = "compare", !.found = user], sessions)
    /\ UNCHANGED <<users, nextSid, destroyed, now>>

\* what login writes into the session once the password matched
LoginSessionFirst(user) == users[1].id

LoginSession(user) == users[user].id

LoginCompare(r, ok) ==
    /\ req[r].pc = "compare"
    /\ LET rq == req[r]
       IN IF ~ok
          THEN Finish(r, [rq EXCEPT !.fail = TRUE], sessions, LoginFailed)
          ELSE IF ~Compare(rq.password, users[rq.found].passwordHash)
          THEN Finish(r, rq, sessions,
                      Render("auth/login", "Invalid email or password"))
          ELSE Finish(r, [rq EXCEPT !.userId = LoginSession(rq.found)], sessions,
                      Redirect("/posts"))
    /\ UNCHANGED <<users, nextSid, destroyed, now>>

\* --------------------------------------------------------------- logout
\* req.session.destroy(cb): the store entry goes at once, cb runs later
PostLogout(r, c) ==
    /\ req[r].pc = "idle"
    /\ Generate(c)
    /\ LET rq == Incoming(c, "logout", "", "", 0)
       IN /\ Continue(r, [rq EXCEPT !.pc = "destroyed", !.gone = TRUE],
                      StoreDestroy(Load(c).store, rq.sid))
          /\ destroyed' = destroyed \cup {rq.sid}
    /\ UNCHANGED <<users, now>>

LogoutRedirect(r) ==
    /\ req[r].pc = "destroyed"
    /\ Finish(r, req[r], sessions, Redirect("/login"))
    /\ UNCHANGED <<users, nextSid, destroyed, now>>

\* ---------------------------------------------------------------- posts
\* GET /posts: no guard in front of the handler
GetPosts(r, c) ==
    /\ req[r].pc = "idle"
    /\ Generate(c)
    /\ Continue(r, [Incoming(c, "listPosts", "", "", 0) EXCEPT !.pc = "findMany"],
                Load(c).store)
    /\ UNCHANGED <<users, destroyed, now>>

GetPostsRender(r) ==
    /\ req[r].pc = "findMany"
    /\ Finish(r, [req[r] EXCEPT !.postOp = "findMany"], sessions,
              Render("posts/index", ""))
    /\ UNCHANGED <<users, nextSid, destroyed, now>>

\* the show-post handler body behind requireAuth
ShowPost(id) ==
    IF id \notin Posts THEN SendStatus(404, "Post not found")
    ELSE Render("posts/show", "")

\* the show-post handler of the variant without authentication
ShowPostUnguarded(id) ==
    IF id \notin Posts THEN SendStatus(404, "Post not found")
    ELSE Render("posts/show", "")

\* GET /posts/:id: requireAuth, then the handler
GetPost(r, c, id) ==
    /\ req[r].pc = "idle"
    /\ Generate(c)
    /\ LET rq == Incoming(c, "showPost", "", "", id)
           store == Load(c).store
       IN IF ~RequireAuth(rq.userId)
          THEN Finish(r, rq, store, Redirect("/login"))
          ELSE Continue(r, [rq EXCEPT !.pc = "findPost"], store)
    /\ UNCHANGED <<users, destroyed, now>>

GetPostRender(r) ==
    /\ req[r].pc = "findPost"
    /\ Finish(r, [req[r] EXCEPT !.postOp = "findUnique"], sessions,
              ShowPost(req[r].postId))
    /\ UNCHANGED <<users, nextSid, destroyed, now>>

\* ---------------------------------------------------------------- clock
Tick ==
    /\ now < MaxTime
    /\ now' = now + 1
    /\ UNCHANGED <<users, sessions, nextSid, jar, req, last, destroyed>>

\* ------------------------------------------------------- specifications
Init ==
    /\ users = <<>>
    /\ sessions = NoStore
    /\ nextSid = 1
    /\ jar = [c \in Clients |-> NoSid]
    /\ req = [r \in Slots |-> Idle]
    /\ last = NoOutcome
    /\ destroyed = {}
    /\ now = 0

\* requests do not overlap: one starts only when none is in flight
Quiet == \A r \in Slots : req[r].pc = "idle"

NextSeq ==
    \/ \E c \in Clients, e \in Emails, p \in Passwords :
           Quiet /\ PostRegister(1, c, e, p)
    \/ \E ok \in BOOLEAN : RegisterFindUnique(1, ok)
    \/ \E salt \in Salts, ok \in BOOLEAN : RegisterHash(1, salt, ok)
    \/ \E ok \in BOOLEAN : RegisterCreate(1, ok)
    \/ \E c \in Clients, e \in Emails, p \in Passwords :
           Quiet /\ PostLogin(1, c, e, p)
    \/ \E ok \in BOOLEAN : LoginFindUnique(1, ok)
    \/ \E ok \in BOOLEAN : LoginCompare(1, ok)
    \/ \E c \in Clients : Quiet /\ PostLogout(1, c)
    \/ LogoutRedirect(1)
    \/ \E c \in Clients : Quiet /\ GetPosts(1, c)
    \/ GetPostsRender(1)
    \/ \E c \in Clients, id \in PostIds : Quiet /\ GetPost(1, c, id)
    \/ GetPostRender(1)

SpecSeq == Init /\ [][NextSeq]_vars

\* the continuation of the request in flight: it runs once the awaited
\* promise (prisma, bcrypt, the session store) has settled
Settle ==
    \/ \E ok \in BOOLEAN : RegisterFindUnique(1, ok)
    \/ \E salt \in Salts, ok \in BOOLEAN : RegisterHash(1, salt, ok)
    \/ \E ok \in BOOLEAN : RegisterCreate(1, ok)
    \/ \E ok \in BOOLEAN : LoginFindUnique(1, ok)
    \/ \E ok \in BOOLEAN : LoginCompare(1, ok)
    \/ LogoutRedirect(1)
    \/ GetPostsRender(1)
    \/ GetPostRender(1)

\* every awaited promise settles, with a value or with a rejection
SpecLive == Init /\ [][NextSeq]_vars /\ WF_vars(Settle)

\* one client, requests one at a time, with the clock running
TimeClient == "c1"
TimeEmails == {"", "alice@example.com"}

NextTime ==
    \/ \E e \in TimeEmails, p \in Passwords :
           Quiet /\ PostRegister(1, TimeClient, e, p)
    \/ \E ok \in BOOLEAN : RegisterFindUnique(1, ok)
    \/ \E salt \in Salts, ok \in BOOLEAN : RegisterHash(1, salt, ok)
    \/ \E ok \in BOOLEAN : RegisterCreate(1, ok)
    \/ \E e \in TimeEmails, p \in Passwords :
           Quiet /\ PostLogin(1, TimeClient, e, p)
    \/ \E ok \in BOOLEAN : LoginFindUnique(1, ok)
    \/ \E ok \in BOOLEAN : LoginCompare(1, ok)
    \/ Quiet /\ PostLogout(1, TimeClient)
    \/ LogoutRedirect(1)
    \/ Quiet /\ GetPosts(1, TimeClient)
    \/ GetPostsRender(1)
    \/ \E id \in PostIds : Quiet /\ GetPost(1, TimeClient, id)
    \/ GetPostRender(1)
    \/ Tick

SpecTime == Init /\ [][NextTime]_vars

\* requests overlap: either slot may start while the other is in flight
RaceEmails == {"alice@example.com", "not-an-address"}
RacePasswords == {"secret1"}

RaceClient == "c1"

\* a request may start if its cookie names a live session or an id is left
RaceStart == Load(RaceClient).fresh => nextSid <= MaxRaceSid

\* await bcrypt.hash / await bcrypt.compare: the digest is computed off the
\* event loop, so a request waiting for it keeps no other handler from running
\* (the synchronous calls would hold the loop until the digest is there)
BusySync(rq) == rq.pc \in {"hash", "compare"}

Busy(rq) == FALSE

\* the event loop is free to run a step of the request in slot r
Free(r) == \A q \in Slots \ {r} : ~Busy(req[q])

\* a step of the request in slot r, or the arrival of a request in it
StepRace(r) ==
    \/ \E e \in RaceEmails, p \in RacePasswords :
           Free(r) /\ RaceStart /\ PostRegister(r, RaceClient, e, p)
    \/ \E ok \in BOOLEAN : Free(r) /\ RegisterFindUnique(r, ok)
    \/ \E salt \in Salts, ok \in BOOLEAN : Free(r) /\ RegisterHash(r, salt, ok)
    \/ \E ok \in BOOLEAN : Free(r) /\ RegisterCreate(r, ok)
    \/ \E e \in RaceEmails, p \in RacePasswords :
           Free(r) /\ RaceStart /\ PostLogin(r, RaceClient, e, p)
    \/ \E ok \in BOOLEAN : Free(r) /\ LoginFindUnique(r, ok)
    \/ \E ok \in BOOLEAN : Free(r) /\ LoginCompare(r, ok)
    \/ Free(r) /\ RaceStart /\ PostLogout(r, RaceClient)
    \/ Free(r) /\ LogoutRedirect(r)
    \/ Free(r) /\ RaceStart /\ GetPost(r, RaceClient, 1)
    \/ Free(r) /\ GetPostRender(r)

NextRace == \E r \in Slots : StepRace(r)

SpecRace == Init /\ [][NextRace]_vars

\* =================================================================
\* Properties
\* =================================================================
\* the step that sends a response: the outcome on the wire changes
Responds == last' # NoOutcome /\ vars' # vars

\* some user record holds the email
Held(rows, email) == \E i \in 1..Len(rows) : rows[i].email = email

\* the id of the user registered with the email
IdOf(rows, email) == (CHOOSE u \in {rows[i] : i \in 1..Len(rows)} : u.email = email).id

\* (email, password) is a registered pair
Registered(rows, email, password) ==
    \E i \in 1..Len(rows) :
        rows[i].email = email /\ rows[i].passwordHash.of = password

\* C1: with requests that do not overlap, a session id destroyed by
\* POST /logout resolves to no user id afterwards: the store holds no live
\* entry for it, and no later request that presents it in its cookie runs
\* with a user id loaded from it.
C1_DestroyedNeverResolves ==
    \A s \in destroyed :
        /\ Resolve(s) = NoUser
        /\ \A r \in Slots :
               (req[r].pc # "idle" /\ req[r].cookieId = s /\ ~req[r].gone)
                   => req[r].orig = NoUser
        /\ (last.cookieId = s /\ last.kind # "logout") => last.orig = NoUser

\* a client logged in again while its cookie still named a destroyed session
C1_Witness ==
    /\ last.kind = "login"
    /\ last.response = Redirect("/posts")
    /\ last.cookieId \in destroyed
    /\ Resolve(jar[last.client]) # NoUser

\* C2: a GET /posts/:id request whose session carries no userId is answered
\* with a redirect to /login and its handler does not run; one whose session
\* carries a userId gets the handler's response, the same the unguarded
\* handler gives for that id.
C2_GuardGates ==
    last.kind = "showPost" =>
        IF last.orig = NoUser
        THEN last.response = Redirect("/login") /\ last.postOp = "none"
        ELSE /\ last.postOp = "findUnique"
             /\ last.response = ShowPostUnguarded(last.postId)

\* an authenticated client was shown an existing post
C2_Witness ==
    /\ last.kind = "showPost"
    /\ last.orig # NoUser
    /\ last.response = Render("posts/show", "")

\* C3: every post route is protected: a request to one without an
\* authenticated session is redirected to /login and touches no post.
C3_AllPostRoutesProtected ==
    (last.kind \in {"listPosts", "showPost"} /\ last.orig = NoUser) =>
        last.response = Redirect("/login") /\ last.postOp = "none"

\* C4: POST /login with a registered (email, password), whatever the
\* client's state before and provided the user lookup itself does not fail,
\* redirects to /posts and leaves the client's cookie naming a session that
\* resolves to the id of the user registered with that email.
C4_LoginSucceeds ==
    (/\ last.kind = "login"
     /\ ~last.fail
     /\ Registered(users, last.email, last.password))
        => /\ last.response = Redirect("/posts")
           /\ Resolve(jar[last.client]) = IdOf(users, last.email)

\* a client authenticated as one user logged in as another
C4_Witness ==
    /\ last.kind = "login"
    /\ ~last.fail
    /\ Registered(users, last.email, last.password)
    /\ last.orig # NoUser
    /\ last.orig # IdOf(users, last.email)

\* a login that supplied both fields and was turned down: the email is held
\* by no user, or the password is not the one registered with it
Rejected(o, rows) ==
    /\ o.kind = "login"
    /\ o.email # "" /\ o.password # ""
    /\ ~o.fail
    /\ ~Registered(rows, o.email, o.password)

\* C5: a turned-down login gets the same outcome whether or not the email
\* is registered: the login view with the one message 'Invalid email or
\* password', no cookie, and a session store with the same sessions for the
\* same users as before.
C5_FailedLoginUniform ==
    [][(Responds /\ Rejected(last', users))
          => /\ last'.response = Render("auth/login", "Invalid email or password")
             /\ last'.setCookie = NoSid
             /\ jar' = jar
             /\ DOMAIN sessions' = DOMAIN sessions
             /\ \A s \in DOMAIN sessions : sessions'[s].userId = sessions[s].userId
      ]_vars

\* a login with a registered email and a wrong password was turned down
C5_Witness ==
    /\ Rejected(last, users)
    /\ Held(users, last.email)

\* C6: POST /register with a non-empty email no user holds and a password
\* of 6 or more characters, the store not failing, leaves exactly one user
\* record with that email, the client's cookie naming a session that
\* resolves to the new user's id, and answers with a redirect to /posts.
C6_RegisterSucceeds ==
    [][(/\ Responds
        /\ last'.kind = "register"
        /\ last'.email # "" /\ Len(last'.password) >= 6
        /\ ~last'.fail
        /\ ~Held(users, last'.email))
          => /\ Cardinality({i \in 1..Len(users') : users'[i].email = last'.email}) = 1
             /\ Len(users') = Len(users) + 1
             /\ Live(sessions', jar'[last'.client])
             /\ sessions'[jar'[last'.client]].userId = IdOf(users', last'.email)
             /\ last'.response = Redirect("/posts")
      ]_vars

\* a second user registered, from a client that was authenticated already
C6_Witness ==
    /\ last.kind = "register"
    /\ last.created
    /\ last.response = Redirect("/posts")
    /\ last.orig # NoUser

\* C7: POST /register with an email a user record already holds and a
\* password of 6 or more characters, the lookup not failing, is answered
\* with 'Email already registered'; the user records are unchanged and no
\* session is created or sent.
C7_DuplicateEmailRejected ==
    [][(/\ Responds
        /\ last'.kind = "register"
        /\ Len(last'.password) >= 6
        /\ ~last'.fail
        /\ Held(users, last'.email))
          => /\ last'.response = Render("auth/register", "Email already registered")
             /\ users' = users
             /\ last'.setCookie = NoSid
             /\ jar' = jar
             /\ DOMAIN sessions' = DOMAIN sessions
      ]_vars

\* a registration was turned down for its email
C7_Witness ==
    /\ last.kind = "register"
    /\ last.response = Render("auth/register", "Email already registered")
    /\ Held(users, last.email)

\* C8: POST /register with a password shorter than 6 characters is
\* answered with a validation error whatever the email; no user record and
\* no session is created and the credential store is not called.
C8_ShortPasswordRejected ==
    [][(/\ Responds
        /\ last'.kind = "register"
        /\ Len(last'.password) < 6)
          => /\ last'.response \in
                    {Render("auth/register", "Email and password required"),
                     Render("auth/register", "Password must be at least 6 characters")}
             /\ users' = users
             /\ ~last'.dbq
             /\ last'.setCookie = NoSid
             /\ jar' = jar
             /\ DOMAIN sessions' = DOMAIN sessions
      ]_vars

\* a five-character password was turned down
C8_Witness ==
    /\ last.kind = "register"
    /\ last.password = "12345"
    /\ last.email # ""
    /\ last.response = Render("auth/register", "Password must be at least 6 characters")

\* the emails of the input set that are syntactically addresses
ValidAddress(email) == email = "alice@example.com"

\* C9: POST /register with an email that is empty or not syntactically an
\* address is answered with a validation error; no user record and no
\* session is created, whatever the password.
C9_EmailValidated ==
    (last.kind = "register" /\ ~ValidAddress(last.email))
        => /\ last.response \in
                  {Render("auth/register", "Email and password required"),
                   Render("auth/register", "Password must be at least 6 characters")}
           /\ ~last.created
           /\ last.setCookie = NoSid

\* C10: a successful login runs on a new session id, distinct from the one
\* the client presented in its cookie.
C10_LoginIssuesNewToken ==
    (last.kind = "login" /\ last.response = Redirect("/posts"))
        => last.sid # last.cookieId

\* C11: POST /logout answers with a redirect to /login whatever the client's
\* state, and leaves the store without an entry for the client's cookie, so
\* the client is anonymous; a logout whose cookie names no store entry (a
\* second logout) leaves the store as it found it and answers the same.
C11_LogoutIdempotent ==
    [][/\ (Responds /\ last'.kind = "logout")
            => /\ last'.response = Redirect("/login")
               /\ last'.setCookie = NoSid
               /\ jar'[last'.client] \notin DOMAIN sessions'
               /\ sessions' = sessions
       /\ \A r \in Slots :
              (req[r].pc = "idle" /\ req'[r].kind = "logout"
                    /\ jar[req'[r].client] \notin DOMAIN sessions)
                  => sessions' = sessions
      ]_vars

\* a client logged out again with the cookie of the session it had destroyed
C11_Witness ==
    /\ last.kind = "logout"
    /\ last.response = Redirect("/login")
    /\ last.cookieId \in destroyed
    /\ last.cookieId # last.sid

\* C12: a session first written at time t resolves to no user at any time
\* from t + TTL on, whatever requests presented it in between.
C12_ExpiresAfterTTL ==
    \A s \in DOMAIN sessions :
        now >= sessions[s].since + TTL => Resolve(s) = NoUser

\* C13: a registration whose insert loses the race for an address (the user
\* store accepted the lookup and the insert, but the address was taken in
\* between) ends as a sequential duplicate does: 'Email already registered',
\* no session, and exactly one account holds the address.
C13_RaceLoserGetsDuplicateError ==
    (/\ last.kind = "register"
     /\ last.dbq /\ ~last.fail /\ ~last.created
     /\ Len(last.password) >= PasswordMin
     /\ last.email # "")
        => /\ last.response = Render("auth/register", "Email already registered")
           /\ last.setCookie = NoSid
           /\ Cardinality({i \in 1..Len(users) : users[i].email = last.email}) = 1

\* C14: when the user store fails during registration (at the lookup, while
\* hashing, or at the insert), the request ends with the register form showing
\* 'Registration failed'; no cookie is issued, the client's cookie and what it
\* resolves to are as before, no session entry appears, and the user set is
\* exactly as before.
C14_StoreFailureChangesNothing ==
    [][(Responds /\ last'.kind = "register" /\ last'.fail)
          => /\ last'.response = Render("auth/register", "Registration failed")
             /\ last'.setCookie = NoSid
             /\ users' = users
             /\ jar' = jar
             /\ DOMAIN sessions' = DOMAIN sessions
             /\ \A s \in DOMAIN sessions : sessions'[s].userId = sessions[s].userId
      ]_vars

\* the store failed after the lookup had succeeded, for a signed-in client
C14_Witness ==
    /\ last.kind = "register"
    /\ last.fail
    /\ last.dbq
    /\ last.orig # NoUser
    /\ Resolve(jar[last.client]) = last.orig

\* C15: when a logout has been answered, the store holds no entry for the
\* session the request presented and the client no longer holds the session
\* cookie.
C15_LogoutClearsCookie ==
    last.kind = "logout"
        => /\ last.sid \notin DOMAIN sessions
           /\ last.cookieId \notin DOMAIN sessions
           /\ jar[last.client] = NoSid

\* C16: a login in flight together with a logout presenting the same token
\* does not undo the logout: when the login is answered, every token a logout
\* has destroyed still resolves to no user.
C16_LoginKeepsDestroyedGone ==
    [][\A r \in Slots :
          (req[r].kind = "login" /\ req[r].pc # "idle" /\ req'[r].pc = "idle")
              => \A s \in destroyed :
                    ~Live(sessions, s) => ~Live(sessions', s)
      ]_vars

\* the session ids the request making the step works on: the id its cookie
\* named and the id of its own session
Token ==
    IF req[1].pc # "idle" THEN {req[1].sid, req[1].cookieId}
    ELSE IF req'[1].pc # "idle" THEN {req'[1].sid, req'[1].cookieId}
    ELSE {last'.sid, last'.cookieId}

\* C17: a step of a request leaves every session other than the one its own
\* token names exactly as it was (logout, login and registration included),
\* and creates no session under another token; the other sessions of the same
\* user keep resolving.
C17_SessionsIndependent ==
    [][/\ \A s \in DOMAIN sessions \ Token :
              s \in DOMAIN sessions' /\ sessions'[s] = sessions[s]
       /\ (DOMAIN sessions' \ DOMAIN sessions) \subseteq Token
      ]_vars

\* a client logged out while another session of the same user was in the
\* store, which still resolves to that user
C17_Witness ==
    /\ last.kind = "logout"
    /\ last.orig # NoUser
    /\ last.cookieId \in destroyed
    /\ \E s \in DOMAIN sessions : s # last.cookieId /\ Resolve(s) = last.orig

\* C18: a login that is answered with anything but the redirect to /posts
\* leaves the user set, the client's cookie and every live session entry
\* exactly as they were, and adds no session entry.
C18_FailedLoginChangesNothing ==
    [][(Responds /\ last'.kind = "login" /\ last'.response # Redirect("/posts"))
          => /\ users' = users
             /\ jar' = jar
             /\ last'.setCookie = NoSid
             /\ DOMAIN sessions' \subseteq DOMAIN sessions
             /\ \A s \in DOMAIN sessions :
                    Live(sessions, s)
                        => s \in DOMAIN sessions' /\ sessions'[s] = sessions[s]
      ]_vars

\* the identity context for a client's request, from what the client's cookie
\* resolves to when the request arrives
IdentityFor(c) ==
    IF Resolve(jar[c]) # NoUser THEN {[id |-> Resolve(jar[c])]} ELSE {}

\* C19: when a request arrives, its currentUser is {id: u} exactly when the
\* session of its cookie resolves to user u, and null otherwise; the request
\* is passed on to its route either way (an anonymous request to a route
\* without the guard is never answered with the redirect to /login); and the
\* identity of the other request in flight is left as it was.
C19_CurrentUserFromSession ==
    [][/\ \A r \in Slots :
              (req[r].pc = "idle" /\ req'[r].pc # "idle")
                  => req'[r].currentUser = IdentityFor(req'[r].client)
       /\ (Responds /\ req' = req /\ now' = now)
              => /\ last'.currentUser = IdentityFor(last'.client)
                 /\ (last'.kind # "showPost"
                        => last'.response # Redirect("/login"))
       /\ \A q \in Slots :
              (req[q].pc # "idle" /\ req'[q].pc # "idle")
                  => req'[q].currentUser = req[q].currentUser
      ]_vars

\* two requests in flight together, one with an identity and one without
C19_Witness ==
    \E r, q \in Slots :
        /\ req[r].pc # "idle" /\ req[r].currentUser # {}
        /\ req[q].pc # "idle" /\ req[q].currentUser = {}

\* C20: whatever way registrations interleave, no two accounts have the same
\* address and no two accounts have the same id.
C20_UsersUnique ==
    \A i, j \in 1..Len(users) :
        i # j => /\ users[i].email # users[j].email
                 /\ users[i].id # users[j].id

\* two accounts exist and an insert that came after a clean lookup was
\* refused because the address had been taken in between
C20_Witness ==
    /\ Len(users) >= 2
    /\ last.kind = "register"
    /\ last.dbq /\ ~last.fail /\ ~last.created
    /\ last.response = Render("auth/register", RegistrationFailed)

\* the completed request o signed user u in: a registration that created u,
\* or a login with u's address and the password u's stored hash is the digest of
SignedIn(o, rows, u) ==
    /\ o.response = Redirect("/posts")
    /\ u \in 1..Len(rows)
    /\ rows[u].id = u
    /\ rows[u].email = o.email
    /\ \/ o.kind = "register" /\ o.created /\ u = Len(rows)
       \/ o.kind = "login" /\ rows[u].passwordHash.alg = "bcrypt"
                            /\ rows[u].passwordHash.of = o.password

\* C21: a session entry comes to carry user id u only in the step that
\* answers a request running on that session's token which registered u or
\* logged in with u's address and matching password; every stored session
\* carries the id of an existing user; and a client's cookie is set only by
\* such a request of that client.
C21_AuthenticationSound ==
    [][/\ \A s \in DOMAIN sessions' :
              /\ sessions'[s].userId \in 1..Len(users')
              /\ (s \notin DOMAIN sessions
                      \/ sessions'[s].userId # sessions[s].userId)
                    => /\ last'.sid = s
                       /\ SignedIn(last', users', sessions'[s].userId)
       /\ \A c \in Clients :
              jar'[c] # jar[c]
                  => /\ last'.client = c
                     /\ jar'[c] = last'.sid
                     /\ \E u \in 1..Len(users') : SignedIn(last', users', u)
      ]_vars

\* one client holds a session obtained by a login while the other client,
\* which never signed in, holds none
C21_Witness ==
    /\ last.kind = "login"
    /\ last.response = Redirect("/posts")
    /\ Resolve(jar[last.client]) = IdOf(users, last.email)
    /\ \E c \in Clients : c # last.client /\ jar[c] = NoSid
    /\ \A s \in DOMAIN sessions : s \in {jar[c] : c \in Clients}

\* the fields of what goes to the client, of a stored session and of the
\* identity context
ResponseFields == {"status", "view", "location", "error"}
SessionFields == {"userId", "expires", "since"}
IdentityFields == {"id"}

\* an identity context that carries a user id and nothing else
OnlyId(ctx) ==
    \A x \in ctx : DOMAIN x = IdentityFields /\ x.id \in 1..Len(users)

\* C22: every stored passwordHash is the hasher's digest (never the submitted
\* text itself), the one a registration stores being the digest of the
\* password it submitted; no response carries a password or a hash: it has a
\* status, a view, a location and a message that is no submitted password;
\* a stored session holds only the user id and its dates; the identity
\* context of every request holds only the user id.
C22_NoPasswordExposed ==
    /\ \A i \in 1..Len(users) :
           /\ users[i].passwordHash.alg = "bcrypt"
           /\ \E p \in Passwords, salt \in Salts :
                  users[i].passwordHash = Hash(p, salt)
    /\ (last.kind = "register" /\ last.created)
           => users[Len(users)].passwordHash.of = last.password
    /\ DOMAIN last.response = ResponseFields
    /\ last.response.error \notin (Passwords \ {""})
    /\ last.response.view \notin (Passwords \ {""})
    /\ last.response.location \notin (Passwords \ {""})
    /\ \A s \in DOMAIN sessions :
           DOMAIN sessions[s] = SessionFields /\ sessions[s].userId \in 1..Len(users)
    /\ \A r \in Slots : OnlyId(req[r].currentUser)
    /\ OnlyId(last.currentUser)

\* a signed-in client registered a second account: a digest was stored and
\* the request carried an identity context
C22_Witness ==
    /\ last.kind = "register"
    /\ last.created
    /\ Len(users) = 2
    /\ last.currentUser # {}
    /\ users[2].passwordHash = Hash(last.password, "s1")

\* the request in the slot is inside its hashing step
Hashing(r) == req[r].pc \in {"hash", "compare"}

\* C23: while a register or login request is inside its hashing step, the
\* other request is never held up: if it is in flight its next step can be
\* taken, whatever it is (a lookup, an insert, its own hashing, the logout
\* redirect, the guarded read), and if none is in flight a login, a logout, a
\* registration and a guarded access can each arrive (as long as a session id
\* is left for it); so it runs to its response step by step.
C23_HashingHoldsNoLock ==
    \A r \in Slots : \A q \in Slots \ {r} :
        Hashing(r) =>
            /\ req[q].pc # "idle" => ENABLED StepRace(q)
            /\ (req[q].pc = "idle" /\ RaceStart) =>
                  /\ \A e \in RaceEmails, p \in RacePasswords :
                         /\ ENABLED (Free(q) /\ PostLogin(q, RaceClient, e, p))
                         /\ ENABLED (Free(q) /\ PostRegister(q, RaceClient, e, p))
                  /\ ENABLED (Free(q) /\ PostLogout(q, RaceClient))
                  /\ ENABLED (Free(q) /\ GetPost(q, RaceClient, 1))

\* a logout was answered while the other request was inside its hashing step
C23_Witness ==
    \E r \in Slots : \E q \in Slots \ {r} :
        /\ Hashing(r)
        /\ req[q].pc = "idle"
        /\ last.kind = "logout"
        /\ last.response = Redirect("/login")

\* the form a register or login request re-renders
Form(kind) == IF kind = "register" THEN "auth/register" ELSE "auth/login"

\* the request is a registration or a login
AuthPost(kind) == kind \in {"register", "login"}

\* C24: a POST /register or POST /login in flight has put nothing on the
\* wire yet and is always answered; its one response is the redirect to
\* /posts or the request's own form with a non-empty message, also when
\* validation fails, the address is taken, the credentials are wrong or the
\* store, the hasher or the comparison fails.
C24_AlwaysOneResponse ==
    /\ [](/\ AuthPost(last.kind)
               => \/ last.response = Redirect("/posts")
                  \/ /\ last.response.error # ""
                     /\ last.response = Render(Form(last.kind), last.response.error)
          /\ req[1].pc # "idle" => last = NoOutcome)
    /\ (req[1].pc # "idle" /\ AuthPost(req[1].kind))
           ~> (req[1].pc = "idle" /\ AuthPost(last.kind))

\* a login was answered with its form after the comparison or the lookup failed
C24_Witness ==
    /\ last.kind = "login"
    /\ last.fail
    /\ last.response = LoginFailed
    /\ req[1].pc = "idle"

====
